---- MODULE Spec2Model ----
(***************************************************************************)
(* Pipeline orchestration and cooperative cancellation of solhat-egui.     *)
(*                                                                         *)
(* The GUI thread (SolHat::on_update) starts orchestration tasks and polls *)
(* three process-wide slots; every task is a tokio task that runs          *)
(* process::run_async or sigma::run_sigma_analysis.  A task step is one     *)
(* acquisition of one of the global mutexes together with the thread-local *)
(* computation that precedes it; one GUI step is one pass of on_update.    *)
(***************************************************************************)
EXTENDS Integers, Sequences, FiniteSets, TLC

\* Number of orchestration tasks the GUI spawns in one behaviour of Spec.
MaxTasks == 2
\* Number of tasks the GUI spawns in one behaviour of SpecFew, under which the
\* properties of a single run are checked.
FewTasks == 1
\* Largest number of frames of the light input.
MaxFrames == 2
\* Number of analysis tasks the GUI spawns in one behaviour of SpecAnalyses.
MaxAnalyses == 3

Tasks == 1..MaxTasks

\* Option<T>: None is the empty sequence, Some(x) the one-element sequence.
None == <<>>
Some(x) == <<x>>
IsSome(o) == o # None
Unwrap(o) == o[1]

\* Output paths assemble_output_filename can produce.
Paths == {"out_a.tif", "out_b.tif"}

VARIABLES
    CANCEL_TASK,        \* cancel/mod.rs: CancelContainer.status
    TASK_STATUS_QUEUE,  \* taskstatus.rs: TaskStatusContainer.status
    IMAGE_RESULTS,      \* main.rs: ImageResultsContainer.results
    ANALYSIS_RESULTS,   \* main.rs: AnalysisResultsContainer.series
    COUNTER,            \* analysis/sigma.rs: the static progress counter
    task,               \* the spawned tokio tasks, by spawn order
    spawned,            \* how many tasks have been spawned so far
    series,             \* analysis/sigma.rs: an AnalysisSeries value
    view,               \* the last call made on the series and what it returned
    thresh,             \* where the GUI thread is in its threshold test
    state               \* SolHat.state: the bounded fields of ApplicationState

\* The value the pure functions of AnalysisSeries are applied to and their
\* last result, the threshold test of the GUI thread and the settings; the
\* orchestration leaves them alone.
pure == <<series, view, thresh, state>>

vars == <<CANCEL_TASK, TASK_STATUS_QUEUE, IMAGE_RESULTS, ANALYSIS_RESULTS,
          COUNTER, task, spawned, series, view, thresh, state>>

----------------------------------------------------------------------------
\* taskstatus.rs

TaskPercentage(task_name, num_parts, progress) ==
    [label |-> task_name, total |-> num_parts, completed |-> progress]

\* set_task_status writing the label only, over the counts already there.
set_task_status_label_only(task_name, num_parts, progress) ==
    TASK_STATUS_QUEUE' =
        IF TASK_STATUS_QUEUE = None
        THEN Some(TaskPercentage(task_name, num_parts, progress))
        ELSE Some([TASK_STATUS_QUEUE[1] EXCEPT !.label = task_name])

set_task_status(task_name, num_parts, progress) ==
    TASK_STATUS_QUEUE' = Some(TaskPercentage(task_name, num_parts, progress))

set_task_completed == TASK_STATUS_QUEUE' = None

get_task_status == TASK_STATUS_QUEUE

is_task_running == IsSome(TASK_STATUS_QUEUE)

----------------------------------------------------------------------------
\* cancel/mod.rs

CancelStatus == {"NoStatus", "CancelRequested", "Cancelled"}

set_request_cancel == CANCEL_TASK' = "CancelRequested"

set_task_cancelled == CANCEL_TASK' = "Cancelled"

reset_cancel_status == CANCEL_TASK' = "NoStatus"

is_cancel_requested == CANCEL_TASK = "CancelRequested"

\* Display of TaskCompletion: "Error of type {:?}".
DisplayTaskCompletion(c) == "Error of type " \o c

----------------------------------------------------------------------------
\* The inputs of a run are drawn where the task first reads them: the number
\* of frames of the light input when the context is created from the file,
\* whether a frame's buffer loads when a worker asks for it, and the
\* limb-darkening switch of the copied ApplicationState where run_async
\* reads it (line 67).  The output path is drawn when the run is started.
FrameCounts == 0..MaxFrames

\* Message of an error returned by a function of the solhat library.
ExternalError == "external error"

\* process/mod.rs: the names of the stages, in the order run_async calls them.
StageOrder ==
    << "BuildCalibration", "QualityAnalysis", "FrameLimiting", "RotationAnalysis",
       "Stacking", "LimbDarkeningCorrection", "Normalization", "Save" >>

StageIndex(s) == CHOOSE i \in 1..Len(StageOrder) : StageOrder[i] = s

\* The four master frames of build_solhat_context, in order.
CalibLabel ==
    << "tasks.processing_master_flat", "tasks.processing_master_dark_flat",
       "tasks.processing_master_dark", "tasks.processing_master_bias" >>

\* A tokio task that has not been spawned.
IdleTask ==
    [ kind |-> "none", pc |-> "idle", next |-> "idle", out |-> None,
      k |-> 0, records |-> <<>>, pending |-> {}, done |-> <<>>, c |-> 0,
      image |-> None,
      sigma_list |-> <<>>, why |-> None,
      \* history, read by the properties only: the stages entered, the stage
      \* whose function returned an error, whether a check returned Cancelled,
      \* whether frame limiting returned no frame record
      invoked |-> {}, failed |-> None, cancelled |-> FALSE, zero |-> FALSE ]

\* A task that has ended, because its closure returned or because it
\* panicked: its locals are dropped.
EndedTask == [IdleTask EXCEPT !.pc = "ended"]

\* Task t once run_async has returned an error: its locals are dropped.
Returned(t) ==
    [IdleTask EXCEPT !.kind = task[t].kind, !.why = task[t].why,
                     !.invoked = task[t].invoked, !.failed = task[t].failed,
                     !.cancelled = task[t].cancelled, !.zero = task[t].zero]

InFlight(t) == task[t].pc \notin {"idle", "ended"}

RunResultsContainer(ok, img, err, ctx, out, n) ==
    [ was_success |-> ok, image |-> img, error |-> err, context |-> ctx,
      output_filename |-> out, num_frames_used |-> n ]

\* FailureResult with the error dropped.
FailureResultNoError(why) ==
    RunResultsContainer(FALSE, None, None, None, None, 0)

\* main.rs, SolHat::run: the container built by unwrap_or_else from an error.
FailureResult(why) ==
    RunResultsContainer(FALSE, None, Some(why), None, None, 0)

\* OkResult with the frame count left at the failure container's 0.
OkResultNoCount(corrected_buffer, output_filename, frame_records) ==
    RunResultsContainer(TRUE, Some(corrected_buffer), None, Some("parameters"),
                        Some(output_filename), 0)

\* process/mod.rs, run_async: the container returned after a successful save.
OkResult(corrected_buffer, output_filename, frame_records) ==
    RunResultsContainer(TRUE, Some(corrected_buffer), None, Some("parameters"),
                        Some(output_filename), Len(frame_records))

RECURSIVE GCD(_, _)
GCD(a, b) == IF b = 0 THEN a ELSE GCD(b, a % b)

\* An f64 quotient of two naturals, kept exact as a reduced fraction; 0/0 is
\* the NaN.
F64Div(a, b) ==
    IF b = 0 THEN [num |-> IF a = 0 THEN 0 ELSE 1, den |-> 0]
    ELSE [num |-> a \div GCD(a, b), den |-> b \div GCD(a, b)]

NaN == F64Div(0, 0)

\* The f64 of a whole number.
F64(x) == F64Div(x, 1)

\* The comparisons of f64: every comparison with a NaN is false.
F64Lt(a, b) == a.den # 0 /\ b.den # 0 /\ a.num * b.den < b.num * a.den
F64Gt(a, b) == F64Lt(b, a)
F64Le(a, b) == a.den # 0 /\ b.den # 0 /\ a.num * b.den <= b.num * a.den

\* state.rs, ApplicationState: the fields enforce_value_bounds writes.
ApplicationState(lat, lon, top, thr, mn, mx) ==
    [ obs_latitude |-> lat, obs_longitude |-> lon, top_percentage |-> top,
      obj_detection_threshold |-> thr, min_sigma |-> mn, max_sigma |-> mx ]

\* state.rs, ApplicationState::default, lines 104-118.
DefaultState ==
    ApplicationState(F64(34), F64(-118), F64(100), F64(20000), F64(0),
                     F64(1000))

\* analysis/sigma.rs, AnalysisSeries.
AnalysisSeries(sigma_list) == [sigma_list |-> sigma_list]

\* A call on the series: the function, its arguments and what it returned.
Call(fn, args, ret) == [fn |-> fn, args |-> args, ret |-> ret]

NoCall == Call("none", <<>>, <<>>)

\* The GUI thread with respect to run_thresh_test: not in it, inside it, back
\* from it with Ok or Err, or panicked.
Thresh(pc, ret) == [pc |-> pc, ret |-> ret]

ThreshIdle == Thresh("idle", None)

Init ==
    /\ CANCEL_TASK = "NoStatus"
    /\ TASK_STATUS_QUEUE = None
    /\ IMAGE_RESULTS = None
    /\ ANALYSIS_RESULTS = None
    /\ COUNTER = 0
    /\ task = [t \in Tasks |-> IdleTask]
    /\ spawned = 0
    /\ series = AnalysisSeries(<<>>)
    /\ view = NoCall
    /\ thresh = ThreshIdle
    /\ state = DefaultState

----------------------------------------------------------------------------
\* main.rs, SolHat::on_update, lines 265-282: the poll of IMAGE_RESULTS.
\* A success is handed to the result view and removed; of a failure only the
\* error is taken (and shown in a dialog within the same pass).
PollKind ==
    IF IMAGE_RESULTS = None THEN "empty"
    ELSE IF Unwrap(IMAGE_RESULTS).was_success THEN "success"
    ELSE IF IsSome(Unwrap(IMAGE_RESULTS).error) THEN "failure"
    ELSE "stale"

PolledSlot ==
    CASE PollKind = "success" -> None
      [] PollKind = "failure" -> Some([Unwrap(IMAGE_RESULTS) EXCEPT !.error = None])
      [] OTHER -> IMAGE_RESULTS

PollResults == IMAGE_RESULTS' = PolledSlot

\* main.rs, SolHat::on_update, lines 253-263: the poll of ANALYSIS_RESULTS.
PollAnalysis == ANALYSIS_RESULTS' = None

\* tokio::spawn of a new task running `kind` on a copy of the state.
Spawn(kind, out, first) ==
    /\ spawned + 1 \in DOMAIN task
    /\ spawned' = spawned + 1
    /\ task' = [task EXCEPT ![spawned + 1] =
                  [IdleTask EXCEPT !.kind = kind, !.pc = first, !.out = out]]

\* One pass of on_update in which no button is clicked.
OnUpdate ==
    /\ PollAnalysis
    /\ PollResults
    /\ UNCHANGED <<CANCEL_TASK, TASK_STATUS_QUEUE, COUNTER, task, spawned>>
    /\ UNCHANGED pure

\* main.rs, lines 362-375 and SolHat::run: the start button, which is offered
\* only while get_task_status() is None.
ClickStart(output_filename) ==
    /\ PollAnalysis
    /\ PollResults
    /\ get_task_status = None
    /\ set_task_status("tasks.starting", 1, 1)
    /\ Spawn("run", Some(output_filename), "calib_set")
    /\ UNCHANGED <<CANCEL_TASK, COUNTER>>
    /\ UNCHANGED pure

\* main.rs, lines 337-347: the cancel button, offered while a status is set.
ClickCancel ==
    /\ PollAnalysis
    /\ PollResults
    /\ get_task_status # None
    /\ set_request_cancel
    /\ UNCHANGED <<TASK_STATUS_QUEUE, COUNTER, task, spawned>>
    /\ UNCHANGED pure

\* main.rs, lines 322, 656-666 and SolHat::run_analysis: the analysis button,
\* enabled while is_task_running() is false.
ClickAnalysis ==
    /\ PollAnalysis
    /\ PollResults
    /\ ~is_task_running
    /\ set_task_status("tasks.starting", 1, 1)
    /\ Spawn("analysis", None, "an_ctx")
    /\ UNCHANGED <<CANCEL_TASK, COUNTER>>
    /\ UNCHANGED pure

----------------------------------------------------------------------------
\* Steps of a task.  Set(t, r) replaces task t's locals.
Set(t, r) == task' = [task EXCEPT ![t] = r]

At(t, kind, pc) == task[t].kind = kind /\ task[t].pc = pc

\* `?` on an error inside run_async: the error travels to SolHat::run, which
\* stores the failure container next.  stage is the stage that failed.
Fail(t, stage, why) ==
    [Returned(t) EXCEPT !.pc = "store", !.why = Some(why), !.failed = Some(stage)]

\* Entering a function that starts with check_cancel_status()?; `next` is
\* where the function goes on when the check returns Ok.
ToCheck(r, next) == [r EXCEPT !.pc = "check", !.next = next]

Entered(r, stage) == [r EXCEPT !.invoked = @ \cup {stage}]

\* Check returning Ok whatever the flag holds.
CheckIgnoringRequest(t) ==
    /\ task[t].pc = "check"
    /\ Set(t, [task[t] EXCEPT !.pc = task[t].next])
    /\ UNCHANGED <<CANCEL_TASK, TASK_STATUS_QUEUE, IMAGE_RESULTS,
                   ANALYSIS_RESULTS, COUNTER, spawned>>
    /\ UNCHANGED pure

\* cancel/mod.rs, check_cancel_status, line 56: the read of the flag.
Check(t) ==
    /\ task[t].pc = "check"
    /\ Set(t, IF is_cancel_requested
              THEN [Returned(t) EXCEPT !.pc = "cc_cancelled", !.cancelled = TRUE]
              ELSE [task[t] EXCEPT !.pc = task[t].next])
    /\ UNCHANGED <<CANCEL_TASK, TASK_STATUS_QUEUE, IMAGE_RESULTS,
                   ANALYSIS_RESULTS, COUNTER, spawned>>
    /\ UNCHANGED pure

\* check_cancel_status, line 57.
CheckSetCancelled(t) ==
    /\ task[t].pc = "cc_cancelled"
    /\ set_task_cancelled
    /\ Set(t, [task[t] EXCEPT !.pc = "cc_completed"])
    /\ UNCHANGED <<TASK_STATUS_QUEUE, IMAGE_RESULTS, ANALYSIS_RESULTS, COUNTER,
                   spawned>>
    /\ UNCHANGED pure

\* check_cancel_status, line 58.
CheckSetCompleted(t) ==
    /\ task[t].pc = "cc_completed"
    /\ set_task_completed
    /\ Set(t, [task[t] EXCEPT !.pc = "cc_reset"])
    /\ UNCHANGED <<CANCEL_TASK, IMAGE_RESULTS, ANALYSIS_RESULTS, COUNTER,
                   spawned>>
    /\ UNCHANGED pure

\* What the caller of check_cancel_status()? does with Err(Cancelled):
\* run_async returns it to SolHat::run, which turns it into a failure
\* container; run_sigma_analysis returns it to run_analysis, whose unwrap()
\* panics.
AfterCancelled(t) ==
    IF task[t].kind = "run"
    THEN [task[t] EXCEPT !.pc = "store",
                         !.why = Some(DisplayTaskCompletion("Cancelled"))]
    ELSE EndedTask

\* check_cancel_status, lines 59-61.
CheckReset(t) ==
    /\ task[t].pc = "cc_reset"
    /\ reset_cancel_status
    /\ Set(t, AfterCancelled(t))
    /\ UNCHANGED <<TASK_STATUS_QUEUE, IMAGE_RESULTS, ANALYSIS_RESULTS, COUNTER,
                   spawned>>
    /\ UNCHANGED pure

----------------------------------------------------------------------------
\* process/mod.rs, build_solhat_context: the status of master frame k.
CalibSet(t) ==
    /\ At(t, "run", "calib_set")
    /\ set_task_status(CalibLabel[task[t].k + 1], 0, 0)
    /\ Set(t, Entered([task[t] EXCEPT !.pc = "calib_ext", !.k = @ + 1],
                      "BuildCalibration"))
    /\ UNCHANGED <<CANCEL_TASK, IMAGE_RESULTS, ANALYSIS_RESULTS, COUNTER,
                   spawned>>
    /\ UNCHANGED pure

\* build_solhat_context: CalibrationImage::new_from_file and the save of
\* the master frame return Ok or Err; after Ok comes check_cancel_status()?.
CalibExt(t, ok) ==
    /\ At(t, "run", "calib_ext")
    /\ Set(t, IF ~ok THEN Fail(t, "BuildCalibration", ExternalError)
              ELSE ToCheck(task[t], IF task[t].k < Len(CalibLabel)
                                    THEN "calib_set" ELSE "context"))
    /\ UNCHANGED <<CANCEL_TASK, TASK_STATUS_QUEUE, IMAGE_RESULTS,
                   ANALYSIS_RESULTS, COUNTER, spawned>>
    /\ UNCHANGED pure

\* The record of the i-th frame of the input, before it is scored.
FrameRecord(i) == [frame |-> i, sigma |-> 0, offset |-> 0]

\* The frame records of a ProcessContext created from a file of n frames.
FrameRecords(n) == [i \in 1..n |-> FrameRecord(i)]

\* context.frame_records = frame_records.
WithRecords(r, frame_records) == [r EXCEPT !.records = frame_records]

\* build_solhat_context, lines 205-213: create_with_calibration_frames;
\* run_async then calls frame_sigma_analysis, which starts with a check.
Context(t, ok, frames) ==
    /\ At(t, "run", "context")
    /\ ~ok => frames = 0
    /\ Set(t, IF ~ok THEN Fail(t, "BuildCalibration", ExternalError)
              ELSE ToCheck(WithRecords(task[t], FrameRecords(frames)), "qa_set"))
    /\ UNCHANGED <<CANCEL_TASK, TASK_STATUS_QUEUE, IMAGE_RESULTS,
                   ANALYSIS_RESULTS, COUNTER, spawned>>
    /\ UNCHANGED pure

----------------------------------------------------------------------------
\* process/mod.rs, frame_sigma_analysis, lines 222-226.
SigmaSet(t) ==
    /\ At(t, "run", "qa_set")
    /\ set_task_status("tasks.frame_analysis", Len(task[t].records), 0)
    /\ Set(t, Entered([task[t] EXCEPT !.pc = "map", !.c = 0,
                                      !.pending = DOMAIN task[t].records],
                      "QualityAnalysis"))
    /\ UNCHANGED <<CANCEL_TASK, IMAGE_RESULTS, ANALYSIS_RESULTS, COUNTER,
                   spawned>>
    /\ UNCHANGED pure

\* The on_frame_checked closures: frame_sigma_analysis (lines 231-241) counts
\* in its own Arc<Mutex<usize>>, run_sigma_analysis (sigma.rs lines 95-105) in
\* the static COUNTER; both publish the count while holding the counter.
OnFrameChecked(t) ==
    IF task[t].kind = "run"
    THEN /\ set_task_status("tasks.frame_analysis", Len(task[t].records),
                            task[t].c + 1)
         /\ UNCHANGED COUNTER
    ELSE /\ COUNTER' = COUNTER + 1
         /\ set_task_status("Frame Analysis", Len(task[t].records), COUNTER + 1)

\* The centre-of-mass offset and the quality estimate of frame i: fixed
\* properties of its pixels.
FrameOffset(i) == i - 1
FrameSigma(i) == 5 * i * i

\* frame_analysis_window_size, lines 142-159: the scored copy of a record.
ScoredCopy(fr) ==
    [fr EXCEPT !.offset = FrameOffset(fr.frame), !.sigma = FrameSigma(fr.frame)]

\* MapFrame with the worker scoring the record of the context itself.
MapFrameInPlace(t, i) ==
    /\ task[t].pc = "map"
    /\ i \in task[t].pending
    /\ OnFrameChecked(t)
    /\ Set(t, [task[t] EXCEPT !.pending = @ \ {i}, !.done = Append(@, i),
                              !.c = @ + 1,
                              !.records[i] = ScoredCopy(@)])
    /\ UNCHANGED <<CANCEL_TASK, IMAGE_RESULTS, ANALYSIS_RESULTS, spawned>>
    /\ UNCHANGED pure

\* MapFrame with the closure's commented-out check_cancel_status (process/
\* mod.rs line 236) in force: a worker that sees the request gives up.
MapFrameChecking(t, i) ==
    /\ task[t].pc = "map"
    /\ i \in task[t].pending
    /\ IF is_cancel_requested
       THEN /\ Set(t, [Returned(t) EXCEPT !.pc = "cc_cancelled",
                                          !.cancelled = TRUE])
            /\ UNCHANGED <<TASK_STATUS_QUEUE, COUNTER>>
       ELSE /\ OnFrameChecked(t)
            /\ Set(t, [task[t] EXCEPT !.pending = @ \ {i},
                                      !.done = Append(@, i), !.c = @ + 1])
    /\ UNCHANGED <<CANCEL_TASK, IMAGE_RESULTS, ANALYSIS_RESULTS, spawned>>
    /\ UNCHANGED pure

\* analysis/sigma.rs, frame_analysis_window_size, lines 141-163: one rayon
\* worker loads frame i, scores a copy of its record and reports it.  done
\* lists the frames in the order their workers completed.
MapFrame(t, i) ==
    /\ task[t].pc = "map"
    /\ i \in task[t].pending
    /\ OnFrameChecked(t)
    /\ Set(t, [task[t] EXCEPT !.pending = @ \ {i}, !.done = Append(@, i),
                              !.c = @ + 1])
    /\ UNCHANGED <<CANCEL_TASK, IMAGE_RESULTS, ANALYSIS_RESULTS, spawned>>
    /\ UNCHANGED pure

\* What the workers of the parallel map return, in completion order: the
\* position of the record in the input and its scored copy.
MapResults(frame_records, done) ==
    [k \in DOMAIN done |->
        [index |-> done[k], fr |-> ScoredCopy(frame_records[done[k]])]]

\* Collect with the results in the order the workers completed.
CollectInCompletionOrder(frame_records, done) ==
    [k \in DOMAIN done |-> MapResults(frame_records, done)[k].fr]

\* Collect with the results in reverse input order.
CollectReversed(frame_records, done) ==
    [i \in DOMAIN frame_records |->
        ScoredCopy(frame_records[Len(frame_records) - i + 1])]

\* frame_analysis_window_size, lines 138-165: par_iter().map(..).collect()
\* into a Vec puts every result at the position of its input.
Collect(frame_records, done) ==
    [i \in DOMAIN frame_records |->
        LET results == MapResults(frame_records, done)
        IN results[CHOOSE k \in DOMAIN results : results[k].index = i].fr]

\* MapPanic with the worker leaving out the frame it cannot load instead of
\* panicking.
MapSkippingFrame(t) ==
    /\ task[t].pc = "map"
    /\ task[t].pending # {}
    /\ Set(t, [task[t] EXCEPT
                 !.pending = @ \ {CHOOSE i \in task[t].pending : TRUE}])
    /\ UNCHANGED <<CANCEL_TASK, TASK_STATUS_QUEUE, IMAGE_RESULTS,
                   ANALYSIS_RESULTS, COUNTER, spawned>>
    /\ UNCHANGED pure

\* frame_analysis_window_size, line 143: get_frame(..).expect("") panics when
\* the buffer of a frame still to be mapped cannot be loaded; rayon carries
\* the panic out of the parallel map and the tokio task ends there.
MapPanic(t) ==
    /\ task[t].pc = "map"
    /\ task[t].pending # {}
    /\ Set(t, EndedTask)
    /\ UNCHANGED <<CANCEL_TASK, TASK_STATUS_QUEUE, IMAGE_RESULTS,
                   ANALYSIS_RESULTS, COUNTER, spawned>>
    /\ UNCHANGED pure

\* SigmaJoin going on to frame_rotation, frame_limiting left out.
SigmaJoinToRotation(t) ==
    /\ At(t, "run", "map")
    /\ task[t].pending = {}
    /\ Set(t, ToCheck([WithRecords(task[t],
                                   Collect(task[t].records, task[t].done))
                          EXCEPT !.done = <<>>],
                       "rot_set"))
    /\ UNCHANGED <<CANCEL_TASK, TASK_STATUS_QUEUE, IMAGE_RESULTS,
                   ANALYSIS_RESULTS, COUNTER, spawned>>
    /\ UNCHANGED pure

\* frame_analysis_window_size, lines 164-165, in run_async: collect() returns
\* once every worker is done; frame_limiting then starts with a check.
SigmaJoin(t) ==
    /\ At(t, "run", "map")
    /\ task[t].pending = {}
    /\ Set(t, ToCheck([WithRecords(task[t],
                                   Collect(task[t].records, task[t].done))
                          EXCEPT !.done = <<>>],
                       "lim_set"))
    /\ UNCHANGED <<CANCEL_TASK, TASK_STATUS_QUEUE, IMAGE_RESULTS,
                   ANALYSIS_RESULTS, COUNTER, spawned>>
    /\ UNCHANGED pure

\* The progress closure of frame_limiting, frame_rotation and
\* drizzle_stacking: the library calls it once for each frame it handles,
\* and returns Ok after the last call or Err at any point.
ProgressTick(t, pc, label) ==
    /\ At(t, "run", pc)
    /\ task[t].c < Len(task[t].records)
    /\ set_task_status(label, Len(task[t].records), task[t].c + 1)
    /\ Set(t, [task[t] EXCEPT !.c = @ + 1])
    /\ UNCHANGED <<CANCEL_TASK, IMAGE_RESULTS, ANALYSIS_RESULTS, COUNTER,
                   spawned>>
    /\ UNCHANGED pure

\* The first status of a per-frame stage, after its check returned Ok.
StageSet(t, pc, label, stage, run) ==
    /\ At(t, "run", pc)
    /\ set_task_status(label, Len(task[t].records), 0)
    /\ Set(t, Entered([task[t] EXCEPT !.pc = run, !.c = 0], stage))
    /\ UNCHANGED <<CANCEL_TASK, IMAGE_RESULTS, ANALYSIS_RESULTS, COUNTER,
                   spawned>>
    /\ UNCHANGED pure

\* The subsequences of s: what frame_limit_determinate may keep.
SubSeqOf(s, keep) == SelectSeq(s, LAMBDA fr : fr.frame \in keep)

\* process/mod.rs, frame_limiting, lines 253-257.
LimitSet(t) ==
    StageSet(t, "lim_set", "tasks.frame_limits", "FrameLimiting", "lim_run")

\* frame_limiting, lines 261-267.
LimitTick(t) == ProgressTick(t, "lim_run", "tasks.frame_limits")

\* frame_limiting, lines 261-270: frame_limit_determinate returns an error,
\* or the records it keeps; frame_rotation then starts with a check.
LimitReturn(t, ok, keep) ==
    /\ At(t, "run", "lim_run")
    /\ ok => task[t].c = Len(task[t].records)
    /\ Set(t, IF ~ok THEN Fail(t, "FrameLimiting", ExternalError)
              ELSE ToCheck([WithRecords(task[t], SubSeqOf(task[t].records, keep))
                              EXCEPT !.zero = SubSeqOf(task[t].records, keep) = <<>>],
                           "rot_set"))
    /\ UNCHANGED <<CANCEL_TASK, TASK_STATUS_QUEUE, IMAGE_RESULTS,
                   ANALYSIS_RESULTS, COUNTER, spawned>>
    /\ UNCHANGED pure

\* process/mod.rs, frame_rotation, lines 277-281.
RotationSet(t) ==
    StageSet(t, "rot_set", "tasks.parallactic_angle", "RotationAnalysis",
             "rot_run")

\* frame_rotation, lines 285-294.
RotationTick(t) == ProgressTick(t, "rot_run", "tasks.parallactic_angle")

\* NothingToStack with the test left out.
NothingToStackSkipped(frame_records) == FALSE

\* run_async, line 59: the test that ends a run with nothing to stack.
NothingToStack(frame_records) == Len(frame_records) = 0

ZeroFramesError == "Zero frames to stack. Cannot continue"

\* frame_rotation, lines 285-296, and run_async, lines 59-62: the rotation
\* returns; with no record left run_async fails, otherwise drizzle_stacking
\* starts with a check.
RotationReturn(t, ok) ==
    /\ At(t, "run", "rot_run")
    /\ ok => task[t].c = Len(task[t].records)
    /\ Set(t, IF ~ok THEN Fail(t, "RotationAnalysis", ExternalError)
              ELSE IF NothingToStack(task[t].records)
              THEN Fail(t, "EmptyInput", ZeroFramesError)
              ELSE ToCheck(task[t], "stk_set"))
    /\ UNCHANGED <<CANCEL_TASK, TASK_STATUS_QUEUE, IMAGE_RESULTS,
                   ANALYSIS_RESULTS, COUNTER, spawned>>
    /\ UNCHANGED pure

\* process/mod.rs, drizzle_stacking, lines 302-306.
StackSet(t) ==
    StageSet(t, "stk_set", "tasks.stacking", "Stacking", "stk_run")

\* drizzle_stacking, lines 311-318.
StackTick(t) == ProgressTick(t, "stk_run", "tasks.stacking")

\* An image: the number of frames stacked into it and what was applied since.
Image(n) == [stacked |-> n, corrected |-> FALSE, normalized |-> FALSE]

\* StackReturn correcting limb darkening whatever ld_correction says.
StackReturnAlwaysCorrecting(t, ok, do_ld_correction) ==
    /\ At(t, "run", "stk_run")
    /\ ok => task[t].c = Len(task[t].records)
    /\ ~ok => ~do_ld_correction
    /\ Set(t, IF ~ok THEN Fail(t, "Stacking", ExternalError)
              ELSE [task[t] EXCEPT
                      !.image = Some(Image(Len(task[t].records))),
                      !.pc = "ld_set"])
    /\ UNCHANGED <<CANCEL_TASK, TASK_STATUS_QUEUE, IMAGE_RESULTS,
                   ANALYSIS_RESULTS, COUNTER, spawned>>
    /\ UNCHANGED pure

\* drizzle_stacking, lines 311-318, and run_async, lines 62-81: the stack
\* returns; limb darkening is corrected when ld_correction is set.
StackReturn(t, ok, do_ld_correction) ==
    /\ At(t, "run", "stk_run")
    /\ ok => task[t].c = Len(task[t].records)
    /\ ~ok => ~do_ld_correction
    /\ Set(t, IF ~ok THEN Fail(t, "Stacking", ExternalError)
              ELSE [task[t] EXCEPT
                      !.image = Some(Image(Len(task[t].records))),
                      !.pc = IF do_ld_correction THEN "ld_set" ELSE "norm_set"])
    /\ UNCHANGED <<CANCEL_TASK, TASK_STATUS_QUEUE, IMAGE_RESULTS,
                   ANALYSIS_RESULTS, COUNTER, spawned>>
    /\ UNCHANGED pure

\* run_async, line 71.
LimbSet(t) ==
    /\ At(t, "run", "ld_set")
    /\ set_task_status("tasks.apply_limb_correction", 0, 0)
    /\ Set(t, Entered([task[t] EXCEPT !.pc = "ld_ext"],
                      "LimbDarkeningCorrection"))
    /\ UNCHANGED <<CANCEL_TASK, IMAGE_RESULTS, ANALYSIS_RESULTS, COUNTER,
                   spawned>>
    /\ UNCHANGED pure

\* run_async, lines 72-78: limb_darkening_correction_on_image(..)?.
LimbExt(t, ok) ==
    /\ At(t, "run", "ld_ext")
    /\ Set(t, IF ~ok THEN Fail(t, "LimbDarkeningCorrection", ExternalError)
              ELSE [task[t] EXCEPT
                      !.image = Some([Unwrap(@) EXCEPT !.corrected = TRUE]),
                      !.pc = "norm_set"])
    /\ UNCHANGED <<CANCEL_TASK, TASK_STATUS_QUEUE, IMAGE_RESULTS,
                   ANALYSIS_RESULTS, COUNTER, spawned>>
    /\ UNCHANGED pure

\* run_async, lines 92-97: the status, then normalize_to_16bit[_decorrelated].
NormalizeSet(t) ==
    /\ At(t, "run", "norm_set")
    /\ set_task_status("tasks.normalizing_data", 0, 0)
    /\ Set(t, Entered([task[t] EXCEPT
                         !.image = Some([Unwrap(@) EXCEPT !.normalized = TRUE]),
                         !.pc = "save_set"],
                      "Normalization"))
    /\ UNCHANGED <<CANCEL_TASK, IMAGE_RESULTS, ANALYSIS_RESULTS, COUNTER,
                   spawned>>
    /\ UNCHANGED pure

\* run_async, line 99.
SaveSet(t) ==
    /\ At(t, "run", "save_set")
    /\ set_task_status("tasks.saving_to_disk", 0, 0)
    /\ Set(t, Entered([task[t] EXCEPT !.pc = "saving_set"], "Save"))
    /\ UNCHANGED <<CANCEL_TASK, IMAGE_RESULTS, ANALYSIS_RESULTS, COUNTER,
                   spawned>>
    /\ UNCHANGED pure

\* run_async, line 106.
SavingSet(t) ==
    /\ At(t, "run", "saving_set")
    /\ set_task_status("tasks.saving", 0, 0)
    /\ Set(t, [task[t] EXCEPT !.pc = "save_ext"])
    /\ UNCHANGED <<CANCEL_TASK, IMAGE_RESULTS, ANALYSIS_RESULTS, COUNTER,
                   spawned>>
    /\ UNCHANGED pure

\* run_async, lines 107-110: save(..)? and, after Ok, the status "done".
SaveExt(t, ok) ==
    /\ At(t, "run", "save_ext")
    /\ IF ok
       THEN /\ set_task_status("tasks.done", 1, 1)
            /\ Set(t, [task[t] EXCEPT !.pc = "store"])
       ELSE /\ Set(t, Fail(t, "Save", ExternalError))
            /\ UNCHANGED TASK_STATUS_QUEUE
    /\ UNCHANGED <<CANCEL_TASK, IMAGE_RESULTS, ANALYSIS_RESULTS, COUNTER,
                   spawned>>
    /\ UNCHANGED pure

\* main.rs, SolHat::run, lines 823-832: what run_async returned, or the
\* failure container made of its error.
Results(t) ==
    IF task[t].why = None
    THEN OkResult(Unwrap(task[t].image), Unwrap(task[t].out), task[t].records)
    ELSE FailureResult(Unwrap(task[t].why))

\* SolHat::run, line 833.
Store(t) ==
    /\ At(t, "run", "store")
    /\ IMAGE_RESULTS' = Some(Results(t))
    /\ Set(t, [Returned(t) EXCEPT !.pc = "complete"])
    /\ UNCHANGED <<CANCEL_TASK, TASK_STATUS_QUEUE, ANALYSIS_RESULTS, COUNTER,
                   spawned>>
    /\ UNCHANGED pure

\* SolHat::run, line 834, and SolHat::run_analysis, line 848.
Complete(t) ==
    /\ task[t].pc = "complete"
    /\ set_task_completed
    /\ Set(t, EndedTask)
    /\ UNCHANGED <<CANCEL_TASK, IMAGE_RESULTS, ANALYSIS_RESULTS, COUNTER,
                   spawned>>
    /\ UNCHANGED pure

----------------------------------------------------------------------------
\* analysis/sigma.rs, run_sigma_analysis.

\* state.rs, ApplicationState::default: the accepted sigma range.
DefaultMinSigma == 0
DefaultMaxSigma == 1000

\* SigmaList keeping the sigmas strictly inside the limits.
SigmaListExclusive(frame_records, min_sigma, max_sigma) ==
    SelectSeq([i \in DOMAIN frame_records |-> frame_records[i].sigma],
              LAMBDA sigma : sigma > min_sigma /\ sigma < max_sigma)

\* run_sigma_analysis, lines 111-121: the sigmas within [min_sigma, max_sigma].
RECURSIVE SigmaList(_, _, _)
SigmaList(frame_records, min_sigma, max_sigma) ==
    IF frame_records = <<>> THEN <<>>
    ELSE LET sigma == Head(frame_records).sigma
             rest == SigmaList(Tail(frame_records), min_sigma, max_sigma)
         IN IF sigma >= min_sigma /\ sigma <= max_sigma
            THEN <<sigma>> \o rest ELSE rest

\* run_sigma_analysis, lines 77-88: the context is created; an error is
\* returned as TaskCompletion::Error, on which run_analysis's unwrap() panics.
AnalysisContext(t, ok, frames) ==
    /\ At(t, "analysis", "an_ctx")
    /\ ~ok => frames = 0
    /\ Set(t, IF ~ok THEN EndedTask
              ELSE ToCheck(WithRecords(task[t], FrameRecords(frames)),
                           "an_reset"))
    /\ UNCHANGED <<CANCEL_TASK, TASK_STATUS_QUEUE, IMAGE_RESULTS,
                   ANALYSIS_RESULTS, COUNTER, spawned>>
    /\ UNCHANGED pure

\* run_sigma_analysis, line 90.
AnalysisReset(t) ==
    /\ At(t, "analysis", "an_reset")
    /\ COUNTER' = 0
    /\ Set(t, [task[t] EXCEPT !.pc = "an_set"])
    /\ UNCHANGED <<CANCEL_TASK, TASK_STATUS_QUEUE, IMAGE_RESULTS,
                   ANALYSIS_RESULTS, spawned>>
    /\ UNCHANGED pure

\* run_sigma_analysis, line 91.
AnalysisSet(t) ==
    /\ At(t, "analysis", "an_set")
    /\ set_task_status("Frame Analysis", Len(task[t].records), 0)
    /\ Set(t, Entered([task[t] EXCEPT !.pc = "map", !.c = 0,
                                      !.pending = DOMAIN task[t].records],
                      "QualityAnalysis"))
    /\ UNCHANGED <<CANCEL_TASK, IMAGE_RESULTS, ANALYSIS_RESULTS, COUNTER,
                   spawned>>
    /\ UNCHANGED pure

\* run_sigma_analysis, lines 106-123: the map returned; the sigmas are
\* filtered and the status is cleared.
AnalysisJoin(t) ==
    /\ At(t, "analysis", "map")
    /\ task[t].pending = {}
    /\ set_task_completed
    /\ Set(t, [task[t] EXCEPT
                 !.pc = "an_store",
                 !.records = Collect(task[t].records, task[t].done),
                 !.done = <<>>,
                 !.sigma_list = SigmaList(Collect(task[t].records, task[t].done),
                                          DefaultMinSigma, DefaultMaxSigma)])
    /\ UNCHANGED <<CANCEL_TASK, IMAGE_RESULTS, ANALYSIS_RESULTS, COUNTER,
                   spawned>>
    /\ UNCHANGED pure

\* AnalysisStore writing the series into the run slot as well.
AnalysisStoreInRunSlot(t) ==
    /\ At(t, "analysis", "an_store")
    /\ ANALYSIS_RESULTS' = Some(task[t].sigma_list)
    /\ IMAGE_RESULTS' = Some(FailureResultNoError(None))
    /\ Set(t, [Returned(t) EXCEPT !.pc = "complete"])
    /\ UNCHANGED <<CANCEL_TASK, TASK_STATUS_QUEUE, COUNTER, spawned>>
    /\ UNCHANGED pure

\* main.rs, SolHat::run_analysis, line 847.
AnalysisStore(t) ==
    /\ At(t, "analysis", "an_store")
    /\ ANALYSIS_RESULTS' = Some(task[t].sigma_list)
    /\ Set(t, [Returned(t) EXCEPT !.pc = "complete"])
    /\ UNCHANGED <<CANCEL_TASK, TASK_STATUS_QUEUE, IMAGE_RESULTS, COUNTER,
                   spawned>>
    /\ UNCHANGED pure

----------------------------------------------------------------------------
TaskStep(t) ==
    \/ Check(t)
    \/ CheckSetCancelled(t)
    \/ CheckSetCompleted(t)
    \/ CheckReset(t)
    \/ CalibSet(t)
    \/ \E ok \in BOOLEAN : CalibExt(t, ok)
    \/ \E ok \in BOOLEAN, frames \in FrameCounts : Context(t, ok, frames)
    \/ SigmaSet(t)
    \/ \E i \in 1..MaxFrames : MapFrame(t, i)
    \/ MapPanic(t)
    \/ SigmaJoin(t)
    \/ LimitSet(t)
    \/ LimitTick(t)
    \/ \E ok \in BOOLEAN, keep \in SUBSET (1..MaxFrames) : LimitReturn(t, ok, keep)
    \/ RotationSet(t)
    \/ RotationTick(t)
    \/ \E ok \in BOOLEAN : RotationReturn(t, ok)
    \/ StackSet(t)
    \/ StackTick(t)
    \/ \E ok \in BOOLEAN, do_ld_correction \in BOOLEAN :
          StackReturn(t, ok, do_ld_correction)
    \/ LimbSet(t)
    \/ \E ok \in BOOLEAN : LimbExt(t, ok)
    \/ NormalizeSet(t)
    \/ SaveSet(t)
    \/ SavingSet(t)
    \/ \E ok \in BOOLEAN : SaveExt(t, ok)
    \/ Store(t)
    \/ Complete(t)
    \/ \E ok \in BOOLEAN, frames \in FrameCounts : AnalysisContext(t, ok, frames)
    \/ AnalysisReset(t)
    \/ AnalysisSet(t)
    \/ AnalysisJoin(t)
    \/ AnalysisStore(t)

GuiStep ==
    \/ OnUpdate
    \/ \E output_filename \in Paths : ClickStart(output_filename)
    \/ ClickCancel
    \/ ClickAnalysis

Next == GuiStep \/ \E t \in Tasks : TaskStep(t)

Spec == Init /\ [][Next]_vars

\* The behaviours of Spec in which at most FewTasks tasks are spawned.
NextFew == (GuiStep /\ spawned' <= FewTasks) \/ \E t \in Tasks : TaskStep(t)

SpecFew == Init /\ [][NextFew]_vars

\* The behaviours of Spec in which a full run is started only while no task
\* is in flight and the cancel button is not clicked while a full run is in
\* flight.
NextQuietRuns ==
    \/ OnUpdate
    \/ /\ \A t \in Tasks : ~InFlight(t)
       /\ \E output_filename \in Paths : ClickStart(output_filename)
    \/ /\ \A t \in Tasks : InFlight(t) => task[t].kind # "run"
       /\ ClickCancel
    \/ ClickAnalysis
    \/ \E t \in Tasks : TaskStep(t)

SpecQuietRuns == Init /\ [][NextQuietRuns]_vars

----------------------------------------------------------------------------
\* The threshold test (analysis/threshold.rs), run by the GUI thread.

\* main.rs, lines 322 and 636-647, and run_thresh_test, line 15: the
\* threshold test button, enabled while is_task_running() is false; the test
\* starts by setting the status.
ClickThreshTest ==
    /\ thresh.pc = "idle"
    /\ PollAnalysis
    /\ PollResults
    /\ get_task_status = None
    /\ set_task_status("tasks.threshold_test", 2, 1)
    /\ thresh' = Thresh("inside", None)
    /\ UNCHANGED <<CANCEL_TASK, COUNTER, task, spawned, series, view, state>>

\* What can happen in run_thresh_test, lines 16-27.
ThreshOutcomes == {"ok", "context_error", "frame_error", "no_frame"}

\* run_thresh_test, lines 16-31: create_with_calibration_frames(..)? and
\* get_frame(..)? return Err through `?`; frame_records[0] panics when the
\* file has no frame; otherwise the status is cleared and Ok is returned.
ThreshReturn(outcome) ==
    /\ thresh.pc = "inside"
    /\ CASE outcome = "ok" ->
              /\ set_task_completed
              /\ thresh' = Thresh("returned", Some("Ok"))
         [] outcome \in {"context_error", "frame_error"} ->
              /\ thresh' = Thresh("returned", Some("Err"))
              /\ UNCHANGED TASK_STATUS_QUEUE
         [] outcome = "no_frame" ->
              /\ thresh' = Thresh("panicked", None)
              /\ UNCHANGED TASK_STATUS_QUEUE
    /\ UNCHANGED <<CANCEL_TASK, IMAGE_RESULTS, ANALYSIS_RESULTS, COUNTER, task,
                   spawned, series, view, state>>

\* preview.rs, threshold_test, line 171, and main.rs, lines 644-647: Err is
\* passed on with `?` to expect("Failed threshold test"), which panics.
ThreshCaller ==
    /\ thresh.pc = "returned"
    /\ thresh' = IF thresh.ret = Some("Ok") THEN ThreshIdle
                 ELSE Thresh("panicked", None)
    /\ UNCHANGED <<CANCEL_TASK, TASK_STATUS_QUEUE, IMAGE_RESULTS,
                   ANALYSIS_RESULTS, COUNTER, task, spawned, series, view,
                   state>>

\* The GUI thread makes its passes and its threshold tests one at a time, the
\* tokio tasks run beside it; a panic of the GUI thread ends the program.
NextThresh ==
    \/ thresh.pc = "idle" /\ GuiStep /\ spawned' <= FewTasks
    \/ ClickThreshTest
    \/ \E outcome \in ThreshOutcomes : ThreshReturn(outcome)
    \/ ThreshCaller
    \/ thresh.pc # "panicked" /\ \E t \in Tasks : TaskStep(t)

SpecThresh == Init /\ [][NextThresh]_vars

----------------------------------------------------------------------------
\* The settings and their bounds (state.rs).

\* An f64 field can hold a number or, read from the settings file, a NaN.
Latitudes == { F64(-91), F64(34), F64(91), NaN }
Longitudes == { F64(-181), F64(-118), F64(181), NaN }
Percentages == { F64(0), F64(100), F64(101), NaN }
Thresholds == { F64(0), F64(20000), NaN }
MinSigmas == { F64(-1), F64(0), F64(5), NaN }
MaxSigmas == { F64(-1), F64(3), F64(1000), NaN }

\* The values each setting can be given.
FieldValues ==
    [ obs_latitude |-> Latitudes, obs_longitude |-> Longitudes,
      top_percentage |-> Percentages, obj_detection_threshold |-> Thresholds,
      min_sigma |-> MinSigmas, max_sigma |-> MaxSigmas ]

\* lines 242-246 and 249-253: if self.x > hi { hi } else if self.x < lo { lo }.
Clamp(x, lo, hi) ==
    IF F64Gt(x, hi) THEN hi ELSE IF F64Lt(x, lo) THEN lo ELSE x

\* ApplicationState::enforce_value_bounds, lines 241-281.
enforce_value_bounds(self) ==
    LET s1 == [self EXCEPT
                 !.obs_latitude = Clamp(@, F64(-90), F64(90)),
                 !.obs_longitude = Clamp(@, F64(-180), F64(180)),
                 !.top_percentage = Clamp(@, F64(1), F64(100)),
                 !.obj_detection_threshold =
                     IF F64Lt(@, F64(1)) THEN F64(1) ELSE @]
        s2 == IF F64Gt(s1.min_sigma, s1.max_sigma)
              THEN [s1 EXCEPT !.min_sigma = s1.max_sigma] ELSE s1
        s3 == IF F64Lt(s2.max_sigma, s2.min_sigma)
              THEN [s2 EXCEPT !.max_sigma = s2.min_sigma] ELSE s2
        s4 == IF F64Lt(s3.min_sigma, F64(0))
              THEN [s3 EXCEPT !.min_sigma = F64(0)] ELSE s3
    IN IF F64Lt(s4.max_sigma, F64(0))
       THEN [s4 EXCEPT !.max_sigma = F64(0)] ELSE s4

\* state.rs, load_from_userhome (lines 173-186), and the DragValues of
\* main.rs: one field of the settings takes a new value.
EditState(field, value) ==
    /\ value \in FieldValues[field]
    /\ state' = [state EXCEPT ![field] = value]
    /\ view' = Call("edit", <<field>>, <<>>)
    /\ UNCHANGED <<CANCEL_TASK, TASK_STATUS_QUEUE, IMAGE_RESULTS,
                   ANALYSIS_RESULTS, COUNTER, task, spawned, series, thresh>>

\* main.rs, lines 169 and 290: self.state.enforce_value_bounds().
EnforceValueBounds ==
    /\ state' = enforce_value_bounds(state)
    /\ view' = Call("enforce_value_bounds", <<state>>, <<>>)
    /\ UNCHANGED <<CANCEL_TASK, TASK_STATUS_QUEUE, IMAGE_RESULTS,
                   ANALYSIS_RESULTS, COUNTER, task, spawned, series, thresh>>

NextState ==
    \/ \E field \in DOMAIN FieldValues :
         \E value \in FieldValues[field] : EditState(field, value)
    \/ EnforceValueBounds

\* The settings are edited and their bounds enforced.
SpecState == Init /\ [][NextState]_vars

\* The behaviours in which the user presses only the analysis button (and
\* the cancel button), up to MaxAnalyses times.
InitAnalyses ==
    /\ CANCEL_TASK = "NoStatus"
    /\ TASK_STATUS_QUEUE = None
    /\ IMAGE_RESULTS = None
    /\ ANALYSIS_RESULTS = None
    /\ COUNTER = 0
    /\ task = [t \in 1..MaxAnalyses |-> IdleTask]
    /\ spawned = 0
    /\ series = AnalysisSeries(<<>>)
    /\ view = NoCall
    /\ thresh = ThreshIdle
    /\ state = DefaultState

AnalysisStep(t) ==
    \/ Check(t)
    \/ CheckSetCancelled(t)
    \/ CheckSetCompleted(t)
    \/ CheckReset(t)
    \/ \E ok \in BOOLEAN, frames \in FrameCounts : AnalysisContext(t, ok, frames)
    \/ AnalysisReset(t)
    \/ AnalysisSet(t)
    \/ \E i \in 1..MaxFrames : MapFrame(t, i)
    \/ MapPanic(t)
    \/ AnalysisJoin(t)
    \/ AnalysisStore(t)
    \/ Complete(t)

NextAnalyses ==
    \/ OnUpdate
    \/ ClickCancel
    \/ ClickAnalysis
    \/ \E t \in DOMAIN task : AnalysisStep(t)

SpecAnalyses == InitAnalyses /\ [][NextAnalyses]_vars

----------------------------------------------------------------------------
\* Properties.

----------------------------------------------------------------------------
\* The quality series and its views (analysis/sigma.rs).

\* The longest series of freely chosen sigmas, and the largest window.
MaxSeriesLen == 3
MaxWindow == 3

\* std::f64::MAX and std::f64::MIN: beyond every sigma of the model.
F64_MAX == 1000000
F64_MIN == -F64_MAX

SmallSigmas == {5, 50, 500}

SeqsUpTo(S, n) == UNION { [1..k -> S] : k \in 0..n }

\* The sigmas of the frame records handed to the filter.
SigmaInputs ==
    SeqsUpTo(SmallSigmas, MaxSeriesLen)
        \cup { <<5, 50, 500, 5000>>, <<1, 2, 3, 4, 5>> }

\* context.parameters.min_sigma and max_sigma: Option<f64>.
SigmaLimits == {None} \cup { Some(x) : x \in {10, 50, 1000} }

unwrap_or(o, default) == IF IsSome(o) THEN Unwrap(o) ELSE default

\* Frame records that carry the given sigmas, in order.
ScoredRecords(sigmas) ==
    [i \in DOMAIN sigmas |-> [frame |-> i, sigma |-> sigmas[i], offset |-> 0]]

\* slice::sort_by with partial_cmp: a stable ascending sort (the comparison's
\* unwrap() would panic on a NaN, which the filter never lets in).
InsertSorted(sorted, x) ==
    LET k == Cardinality({ i \in DOMAIN sorted : sorted[i] <= x })
    IN SubSeq(sorted, 1, k) \o <<x>> \o SubSeq(sorted, k + 1, Len(sorted))

RECURSIVE sort_by(_)
sort_by(list) ==
    IF list = <<>> THEN <<>>
    ELSE InsertSorted(sort_by(SubSeq(list, 1, Len(list) - 1)), list[Len(list)])

reverse(list) == [i \in DOMAIN list |-> list[Len(list) - i + 1]]

\* A call on &self: the series after the call, and the value returned.
Returns(self, ret) == [self |-> self, ret |-> ret]

\* sorted_list without the reverse().
sorted_list_ascending(self) == Returns(self, sort_by(self.sigma_list))

\* sorted_list sorting the series itself instead of a clone.
sorted_list_in_place(self) ==
    Returns(AnalysisSeries(reverse(sort_by(self.sigma_list))),
            reverse(sort_by(self.sigma_list)))

\* AnalysisSeries::sorted_list, lines 36-41.
sorted_list(self) == Returns(self, reverse(sort_by(self.sigma_list)))

\* sciimg's min! and max! on two values.
min(x, y) == IF x < y THEN x ELSE y
max(x, y) == IF x > y THEN x ELSE y

AnalysisRange(mn, mx) == [min |-> mn, max |-> mx]

\* minmax, lines 47-50: the for_each over the list.
RECURSIVE ForEachMinMax(_, _)
ForEachMinMax(list, r) ==
    IF list = <<>> THEN r
    ELSE ForEachMinMax(Tail(list),
                       AnalysisRange(min(Head(list), r.min),
                                     max(Head(list), r.max)))

\* minmax starting both scans from 0.
minmax_from_zero(self) ==
    Returns(self, ForEachMinMax(self.sigma_list, AnalysisRange(0, 0)))

\* AnalysisSeries::minmax, lines 43-53.
minmax(self) ==
    Returns(self, ForEachMinMax(self.sigma_list, AnalysisRange(F64_MAX, F64_MIN)))

RECURSIVE Sum(_)
Sum(list) == IF list = <<>> THEN 0 ELSE Head(list) + Sum(Tail(list))

\* list[start..end] of Rust: 0-based, end excluded.
Slice(list, start, end) == SubSeq(list, start + 1, end)

\* sma with the element at i + half_win taken into the mean.
sma_end_included(self, window) ==
    LET half_win == window \div 2
        len == Len(self.sigma_list)
        s(i) == LET start == IF i <= half_win THEN 0 ELSE i - half_win
                    end == IF i + half_win + 1 <= len THEN i + half_win + 1
                           ELSE len
                IN F64Div(Sum(Slice(self.sigma_list, start, end)), end - start)
    IN Returns(self, [j \in 1..len |-> s(j - 1)])

\* AnalysisSeries::sma, lines 55-70.
sma(self, window) ==
    LET half_win == window \div 2
        len == Len(self.sigma_list)
        s(i) == LET start == IF i <= half_win THEN 0 ELSE i - half_win
                    end == IF i + half_win <= len THEN i + half_win ELSE len
                IN F64Div(Sum(Slice(self.sigma_list, start, end)), end - start)
    IN Returns(self, [j \in 1..len |-> s(j - 1)])

\* run_sigma_analysis, lines 111-125: the series built from scored records.
Filter(sigmas, min_sigma, max_sigma) ==
    /\ series' = AnalysisSeries(SigmaList(ScoredRecords(sigmas),
                                          unwrap_or(min_sigma, F64_MIN),
                                          unwrap_or(max_sigma, F64_MAX)))
    /\ view' = Call("filter", <<sigmas, min_sigma, max_sigma>>,
                    series'.sigma_list)
    /\ UNCHANGED <<CANCEL_TASK, TASK_STATUS_QUEUE, IMAGE_RESULTS,
                   ANALYSIS_RESULTS, COUNTER, task, spawned, thresh, state>>

\* analysis/mod.rs, AnalysisChart::sorted_data_line.
CallSortedList ==
    /\ series' = sorted_list(series).self
    /\ view' = Call("sorted_list", <<series>>, sorted_list(series).ret)
    /\ UNCHANGED <<CANCEL_TASK, TASK_STATUS_QUEUE, IMAGE_RESULTS,
                   ANALYSIS_RESULTS, COUNTER, task, spawned, thresh, state>>

\* analysis/sigma.rs, create_chart, line 176.
CallMinMax ==
    /\ series' = minmax(series).self
    /\ view' = Call("minmax", <<series>>, minmax(series).ret)
    /\ UNCHANGED <<CANCEL_TASK, TASK_STATUS_QUEUE, IMAGE_RESULTS,
                   ANALYSIS_RESULTS, COUNTER, task, spawned, thresh, state>>

\* analysis/mod.rs, AnalysisChart::sma_line.
CallSma(window) ==
    /\ series' = sma(series, window).self
    /\ view' = Call("sma", <<series, window>>, sma(series, window).ret)
    /\ UNCHANGED <<CANCEL_TASK, TASK_STATUS_QUEUE, IMAGE_RESULTS,
                   ANALYSIS_RESULTS, COUNTER, task, spawned, thresh, state>>

NextSeries ==
    \/ \E sigmas \in SigmaInputs, min_sigma \in SigmaLimits,
          max_sigma \in SigmaLimits :
         Filter(sigmas, min_sigma, max_sigma)
    \/ CallSortedList
    \/ CallMinMax
    \/ \E window \in 0..MaxWindow : CallSma(window)

\* A series is built from scored records and its views are called on it.
SpecSeries == Init /\ [][NextSeries]_vars

\* The step in which run task t writes IMAGE_RESULTS.
Stores(t) == At(t, "run", "store") /\ task'[t].pc = "complete"

\* The step in which task t ends.
Ends(t) == InFlight(t) /\ task'[t].pc = "ended"

\* A step of task t itself.
Steps(t) == InFlight(t) /\ task'[t] # task[t]

\* The result of a cancelled run: neither an image nor an error message.
CancelledShaped(r) == ~r.was_success /\ r.image = None /\ r.error = None

\* Run task t is where a `?` on a stage function's error left it.
StageFailed(t) ==
    /\ task[t].kind = "run"
    /\ task[t].failed # None
    /\ \E i \in 1..Len(StageOrder) : task[t].failed = Some(StageOrder[i])

\* C1: once a check of a full run has seen the cancel request, the run
\* publishes no further status, stores a Cancelled-shaped result (no image, no
\* error message) and leaves the status slot empty when it ends.
C1_CancelYieldsCancelledResult ==
    [][\A t \in Tasks :
         (task[t].kind = "run" /\ task[t].cancelled) =>
            /\ Steps(t) => TASK_STATUS_QUEUE' \in {None, TASK_STATUS_QUEUE}
            /\ Stores(t) => /\ IMAGE_RESULTS' # None
                            /\ CancelledShaped(Unwrap(IMAGE_RESULTS'))
            /\ Ends(t) => TASK_STATUS_QUEUE' = None]_vars

\* C2: the result stored by a run that a check aborted has no image and no
\* error message, so it is none of the results a failed run stores.
C2_CancelledIsNotFailure ==
    [][\A t \in Tasks :
         (Stores(t) /\ task[t].cancelled) =>
            /\ Unwrap(IMAGE_RESULTS').image = None
            /\ Unwrap(IMAGE_RESULTS').error = None
            /\ IMAGE_RESULTS' \notin
                 { Some(FailureResult(why)) : why \in {ExternalError, ZeroFramesError} }
      ]_vars

\* C3: whenever a task is spawned (start_run or analyze_quality), the cancel
\* state is NoStatus.
C3_RunStartsWithNoStatus ==
    [][spawned' = spawned + 1 => CANCEL_TASK' = "NoStatus"]_vars

\* C4: when the task of a full run ends, however it ends, the status slot is
\* empty.
C4_RunEndsWithStatusCleared ==
    [][\A t \in Tasks :
         (task[t].kind = "run" /\ Ends(t)) => TASK_STATUS_QUEUE' = None]_vars

\* C5: at most one orchestration task is in flight.
C5_AtMostOneTaskInFlight ==
    Cardinality({ t \in Tasks : InFlight(t) }) <= 1

\* C6: a pass of on_update that takes the result in the slot, a success or
\* a failure, leaves the slot empty, so no result is taken twice.
C6_ResultConsumedOnceThenCleared ==
    [][(GuiStep /\ PollKind \in {"success", "failure"}) =>
          IMAGE_RESULTS' = None]_vars

\* C7: a result in the slot is a success with an image and no error, or a
\* failure with an error and no image.
WellShaped(r) ==
    \/ r.was_success /\ r.image # None /\ r.error = None
    \/ ~r.was_success /\ r.error # None /\ r.image = None

C7_ResultInSlotWellShaped ==
    IMAGE_RESULTS # None => WellShaped(Unwrap(IMAGE_RESULTS))

C9_ZeroFramesAlwaysEmptyInput ==
    [][\A t \in Tasks :
         (task[t].kind = "run" /\ task[t].zero) =>
            /\ "Stacking" \notin task[t].invoked
            /\ Stores(t) => IMAGE_RESULTS' = Some(FailureResult(ZeroFramesError))
      ]_vars

\* C9, amended: a run in which frame limiting returned no frame record never
\* enters stacking, and unless the check of rotation analysis cancels it or
\* rotation analysis returns an error, it stores the empty-input failure.
C9_ZeroFramesNeverStacked ==
    [][\A t \in Tasks :
         (task[t].kind = "run" /\ task[t].zero) =>
            /\ "Stacking" \notin task[t].invoked
            /\ "Stacking" \notin task'[t].invoked
            /\ (Stores(t) /\ ~task[t].cancelled /\ ~StageFailed(t)) =>
                  IMAGE_RESULTS' = Some(FailureResult(ZeroFramesError))]_vars

C9_Witness ==
    \E t \in Tasks :
        /\ task[t].pc = "complete"
        /\ task[t].zero
        /\ "RotationAnalysis" \in task[t].invoked
        /\ IMAGE_RESULTS = Some(FailureResult(ZeroFramesError))

\* C10: a run whose save succeeded stores a success with the normalized
\* image, no error, the output path given to start_run and the number of
\* frames that were stacked.
C10_SaveDeliversSuccess ==
    [][\A t \in Tasks :
         (Stores(t) /\ task[t].why = None) =>
            /\ IMAGE_RESULTS' # None
            /\ LET r == Unwrap(IMAGE_RESULTS')
               IN /\ r.was_success
                  /\ r.error = None
                  /\ r.image = task[t].image
                  /\ Unwrap(r.image).normalized
                  /\ r.output_filename = task[t].out
                  /\ r.num_frames_used = Unwrap(r.image).stacked]_vars

C10_Witness ==
    \E t \in Tasks :
        /\ task[t].pc = "complete"
        /\ "Save" \in task[t].invoked
        /\ IMAGE_RESULTS # None
        /\ Unwrap(IMAGE_RESULTS).was_success
        /\ Unwrap(IMAGE_RESULTS).num_frames_used = 1
        /\ Unwrap(IMAGE_RESULTS).output_filename = Some("out_b.tif")

\* The last step of task t was a check_cancel_status() that returned Ok: the
\* task is at the continuation the check was entered with.
CheckedOk(t) == task[t].next = task[t].pc

\* C11: whenever a full run enters a pipeline stage, its previous step was a
\* check that returned Ok.
C11_CheckBeforeEveryStage ==
    [][\A t \in Tasks :
         (task[t].kind = "run" /\ task'[t].invoked \ task[t].invoked # {}) =>
            CheckedOk(t)]_vars

\* The step in which the parallel map of task t returns its output vector.
Joins(t) == task[t].pc = "map" /\ task'[t].pc \notin {"map", "ended"}

\* C12: the vector the parallel map returns has one record for each input
\* record, the i-th being the scored copy of the i-th input record, whatever
\* the order in which the workers completed.
C12_OutputInInputOrder ==
    [][\A t \in Tasks :
         Joins(t) =>
            /\ Len(task'[t].records) = Len(task[t].records)
            /\ \A i \in DOMAIN task[t].records :
                  task'[t].records[i] = ScoredCopy(task[t].records[i])]_vars

C12_Witness ==
    \E t \in Tasks :
        /\ At(t, "run", "map")
        /\ task[t].done = <<2, 1>>
        /\ Collect(task[t].records, task[t].done)[1].frame = 1
        /\ Collect(task[t].records, task[t].done)[2].sigma = FrameSigma(2)

\* The step in which the last worker of task t's parallel map reports.
LastCallback(t) ==
    /\ task[t].pc = "map" /\ task'[t].pc = "map"
    /\ task[t].pending # {} /\ task'[t].pending = {}

\* C13: the count published when the last worker of the quality analysis
\* reports is the number of frames.
C13_CounterReachesFrameCount ==
    [][\A t \in DOMAIN task :
         LastCallback(t) =>
            /\ TASK_STATUS_QUEUE' # None
            /\ Unwrap(TASK_STATUS_QUEUE').completed = Len(task[t].records)]_vars

\* C14: a status in the slot never has more completed than total, and while
\* the label and the total stay the same the completed count does not
\* decrease from one value of the slot to the next (a poll can see each).
C14_ProgressMonotone ==
    [][TASK_STATUS_QUEUE' # None =>
         /\ Unwrap(TASK_STATUS_QUEUE').completed <= Unwrap(TASK_STATUS_QUEUE').total
         /\ (/\ TASK_STATUS_QUEUE # None
             /\ Unwrap(TASK_STATUS_QUEUE).label = Unwrap(TASK_STATUS_QUEUE').label
             /\ Unwrap(TASK_STATUS_QUEUE).total = Unwrap(TASK_STATUS_QUEUE').total)
            => Unwrap(TASK_STATUS_QUEUE').completed
                  >= Unwrap(TASK_STATUS_QUEUE).completed]_vars

\* The orders in which the workers of a map over n records can complete.
Orders(n) ==
    { o \in [1..n -> 1..n] : \A i, j \in 1..n : o[i] = o[j] => i = j }

\* C15: the vector the parallel map returns is the vector it returns for the
\* same records under every other completion order of the workers: offsets,
\* scores and order are the same.
C15_AnalyzeDeterministic ==
    [][\A t \in Tasks :
         Joins(t) =>
            \A order \in Orders(Len(task[t].records)) :
                Collect(task[t].records, order) = task'[t].records]_vars

C15_Witness ==
    \E t \in Tasks :
        /\ At(t, "analysis", "map")
        /\ task[t].done = <<2, 1>>
        /\ Collect(task[t].records, <<2, 1>>) = Collect(task[t].records, <<1, 2>>)
        /\ Collect(task[t].records, <<2, 1>>)[2].offset = FrameOffset(2)

\* The task is inside check_cancel_status, after it has seen the request.
InCheck(t) == task[t].pc \in {"cc_cancelled", "cc_completed", "cc_reset"}

\* C16: from the moment a check has seen the cancel request until it returns,
\* the cancel state and the status slot are changed by that check only.
C16_CheckIsAtomic ==
    [][\A t \in Tasks :
         (/\ InCheck(t)
          /\ \/ CANCEL_TASK' # CANCEL_TASK
             \/ TASK_STATUS_QUEUE' # TASK_STATUS_QUEUE)
         => Steps(t)]_vars

\* C17: when a check that saw the cancel request returns, the cancel state is
\* Cancelled.
C17_CancelledUntilReset ==
    [][\A t \in Tasks :
         (task[t].pc = "cc_reset" /\ Steps(t)) => CANCEL_TASK' = "Cancelled"]_vars

\* C18: request_cancel() leaves Cancelled as it is and makes every other
\* state CancelRequested.
C18_RequestCancelKeepsCancelled ==
    [][ClickCancel =>
         CANCEL_TASK' = IF CANCEL_TASK = "Cancelled" THEN "Cancelled"
                        ELSE "CancelRequested"]_vars

\* C19: while a task is in flight the status slot holds a snapshot.
C19_StatusPresentWhileInFlight ==
    \A t \in Tasks : InFlight(t) => is_task_running

\* The arguments of the set_task_status calls of the program.
PerFrameLabel ==
    { "tasks.frame_analysis", "tasks.frame_limits", "tasks.parallactic_angle",
      "tasks.stacking" }

StatusWrites ==
    { TaskPercentage("tasks.starting", 1, 1), TaskPercentage("tasks.done", 1, 1) }
    \cup { TaskPercentage(CalibLabel[k], 0, 0) : k \in DOMAIN CalibLabel }
    \cup { TaskPercentage(l, 0, 0) :
             l \in { "tasks.apply_limb_correction", "tasks.normalizing_data",
                     "tasks.saving_to_disk", "tasks.saving" } }
    \cup UNION { { TaskPercentage(l, n, c) : c \in 0..n, l \in PerFrameLabel } :
                 n \in FrameCounts }
    \cup { TaskPercentage("Frame Analysis", n, c) :
             n \in FrameCounts, c \in 0..(MaxAnalyses * MaxFrames) }

\* C20: what get_task_status() returns is None or the label, total and
\* completed of one set_task_status call.
C20_StatusIsOneWrite ==
    get_task_status # None => Unwrap(get_task_status) \in StatusWrites

C20_Witness ==
    /\ get_task_status = Some(TaskPercentage("tasks.parallactic_angle", 2, 1))
    /\ \E t \in Tasks : At(t, "run", "rot_run") /\ task[t].c = 1

\* C21: a task started by the analysis button enters no stage but the frame
\* quality analysis, and none of its steps writes the run result slot.
C21_AnalysisOnlyScores ==
    [][\A t \in DOMAIN task :
         (task[t].kind = "analysis" /\ Steps(t)) =>
             /\ task'[t].invoked \subseteq {"QualityAnalysis"}
             /\ IMAGE_RESULTS' = IMAGE_RESULTS]_vars

C21_Witness ==
    /\ ANALYSIS_RESULTS = Some(<<FrameSigma(1), FrameSigma(2)>>)
    /\ \E t \in DOMAIN task :
         /\ At(t, "analysis", "complete")
         /\ task[t].invoked = {"QualityAnalysis"}

----------------------------------------------------------------------------
\* The claims about the quality series.

\* C22: the filter keeps exactly the sigmas with min_sigma <= sigma <=
\* max_sigma, both limits included, in their original order; of 5, 50, 500,
\* 5000 with the limits 10 and 1000 it keeps 50 and 500.
C22_FilterInclusiveInOrder ==
    view.fn = "filter" =>
        LET sigmas == view.args[1]
            min_sigma == view.args[2]
            max_sigma == view.args[3]
        IN /\ series.sigma_list =
                  SelectSeq(sigmas,
                            LAMBDA sigma :
                              /\ IsSome(min_sigma) => Unwrap(min_sigma) <= sigma
                              /\ IsSome(max_sigma) => sigma <= Unwrap(max_sigma))
           /\ view.args = << <<5, 50, 500, 5000>>, Some(10), Some(1000) >>
                  => series.sigma_list = <<50, 500>>

C22_Witness ==
    /\ view = Call("filter", << <<5, 50, 500, 5000>>, Some(10), Some(1000) >>,
                   <<50, 500>>)
    /\ series = AnalysisSeries(<<50, 500>>)

\* How often v occurs in list.
Count(list, v) == Cardinality({ i \in DOMAIN list : list[i] = v })

Values(list) == { list[i] : i \in DOMAIN list }

\* C23: what sorted_list returns is a permutation of the series (the same
\* length, every value as often) and is non-increasing.
C23_SortedIsPermutationDescending ==
    view.fn = "sorted_list" =>
        LET S == view.args[1].sigma_list
            sorted == view.ret
        IN /\ Len(sorted) = Len(S)
           /\ \A v \in Values(S) \cup Values(sorted) :
                Count(sorted, v) = Count(S, v)
           /\ \A i \in 1..(Len(sorted) - 1) : sorted[i] >= sorted[i + 1]

C23_Witness ==
    view = Call("sorted_list", <<AnalysisSeries(<<5, 50, 5>>)>>, <<50, 5, 5>>)

\* C24: for a non-empty series minmax returns the least and the greatest
\* value; for the empty series it returns f64::MAX as min and f64::MIN as max.
C24_MinMaxOrSentinels ==
    view.fn = "minmax" =>
        LET S == view.args[1].sigma_list
        IN IF S = <<>>
           THEN view.ret = AnalysisRange(F64_MAX, F64_MIN)
           ELSE /\ view.ret.min \in Values(S)
                /\ view.ret.max \in Values(S)
                /\ \A v \in Values(S) : view.ret.min <= v /\ v <= view.ret.max

C24_Witness ==
    view = Call("minmax", <<AnalysisSeries(<<50, 5, 500>>)>>,
                AnalysisRange(5, 500))

\* The empty series has been asked for its range.
C24_EmptyReached ==
    view = Call("minmax", <<AnalysisSeries(<<>>)>>,
                AnalysisRange(F64_MAX, F64_MIN))

\* The f64 x is the quotient of the naturals a and b, b not 0.
IsQuotient(x, a, b) == x.den > 0 /\ x.num * b = a * x.den

\* 1.0, 1.5, 2.5, 3.5, 4.5
SmaExample ==
    << F64Div(1, 1), F64Div(3, 2), F64Div(5, 2), F64Div(7, 2), F64Div(9, 2) >>

\* C25: sma(window) returns n elements; with h = window / 2, start = 0 if
\* i <= h else i - h and end = n if i + h > n else i + h, element i is the
\* arithmetic mean of S[start:end]; sma of 1, 2, 3, 4, 5 with window 2 is
\* 1.0, 1.5, 2.5, 3.5, 4.5.
C25_SmaIsWindowMean ==
    view.fn = "sma" =>
        LET S == view.args[1].sigma_list
            window == view.args[2]
            n == Len(S)
            h == window \div 2
            start(i) == IF i <= h THEN 0 ELSE i - h
            end(i) == IF i + h > n THEN n ELSE i + h
        IN /\ Len(view.ret) = n
           /\ \A i \in 0..(n - 1) :
                end(i) > start(i) =>
                    IsQuotient(view.ret[i + 1],
                               Sum(SubSeq(S, start(i) + 1, end(i))),
                               end(i) - start(i))
           /\ (S = <<1, 2, 3, 4, 5>> /\ window = 2) => view.ret = SmaExample

C25_Witness ==
    view = Call("sma", <<AnalysisSeries(<<1, 2, 3, 4, 5>>), 2>>, SmaExample)

\* C36: for a non-empty series of length n and every window, 0 and 1
\* included, sma returns n values, each the mean of a non-empty slice
\* S[start:end] with 0 <= start < end <= n.
C36_SmaMeansOfNonEmptySlices ==
    (view.fn = "sma" /\ view.args[1].sigma_list # <<>>) =>
        LET S == view.args[1].sigma_list
            n == Len(S)
        IN /\ Len(view.ret) = n
           /\ \A i \in 1..n :
                \E start \in 0..(n - 1) : \E end \in (start + 1)..n :
                    IsQuotient(view.ret[i], Sum(SubSeq(S, start + 1, end)),
                               end - start)

\* C26: a call of sorted_list, minmax or sma leaves the series as it was: after
\* the call the series is the one the view was called on, the same values in
\* the same order.
C26_ViewsLeaveSeries ==
    view.fn \in {"sorted_list", "minmax", "sma"} => series = view.args[1]

C26_Witness ==
    /\ series = AnalysisSeries(<<5, 500, 50>>)
    /\ view = Call("sorted_list", <<series>>, <<500, 50, 5>>)

----------------------------------------------------------------------------
\* The claims about the order of the stages.

\* The stages that must have run before stage s: every earlier one but the
\* optional limb-darkening correction.
Before(s) ==
    { StageOrder[i] : i \in 1..(StageIndex(s) - 1) }
        \ {"LimbDarkeningCorrection"}

\* C27: the orchestrator runs its stages one after another in the order
\* calibration build, quality analysis, frame limiting, rotation analysis,
\* stacking, (limb-darkening correction), normalization, save: when it enters a
\* stage, every stage it entered before is an earlier one, every earlier
\* mandatory stage has been entered and none has failed, and no worker of the
\* parallel map is pending or has a result waiting to be collected.
C27_StagesStrictlySequential ==
    [][\A t \in DOMAIN task : \A s \in task'[t].invoked \ task[t].invoked :
         task[t].kind = "run" =>
         /\ \A p \in task[t].invoked : StageIndex(p) < StageIndex(s)
         /\ Before(s) \subseteq task[t].invoked
         /\ task[t].failed = None /\ ~task[t].cancelled
         /\ task[t].pending = {} /\ task[t].done = <<>>]_vars

C27_Witness ==
    \E t \in DOMAIN task :
        /\ At(t, "run", "saving_set")
        /\ task[t].invoked = { StageOrder[i] : i \in DOMAIN StageOrder }
        /\ Len(task[t].records) = MaxFrames

----------------------------------------------------------------------------
\* The claims about cancelling around the parallel map.

\* C28: a cancel requested while the parallel map of the quality analysis is
\* in flight stops no worker: unless the map panics, each step of the task is
\* one more worker reporting its frame, or the return of the map with every
\* record scored; and a task turns cancelled only in a check that reads the
\* request.
C28_CancelStopsNoWorker ==
    [][\A t \in DOMAIN task :
         /\ (/\ task[t].pc = "map"
             /\ is_cancel_requested
             /\ Steps(t)
             /\ task'[t].pc # "ended")
            => \/ /\ task'[t].pc = "map"
                  /\ Len(task'[t].done) = Len(task[t].done) + 1
                  /\ task'[t].pending \subseteq task[t].pending
                  /\ IsSome(TASK_STATUS_QUEUE')
                  /\ Unwrap(TASK_STATUS_QUEUE').total = Len(task[t].records)
               \/ /\ task'[t].pc \in {"check", "an_store"}
                  /\ ~task'[t].cancelled
                  /\ Len(task[t].done) = Len(task[t].records)
                  /\ task'[t].records =
                         [i \in DOMAIN task[t].records |->
                             ScoredCopy(task[t].records[i])]
         /\ (~task[t].cancelled /\ task'[t].cancelled)
            => task[t].pc = "check" /\ is_cancel_requested]_vars

C28_Witness ==
    \E t \in DOMAIN task :
        /\ At(t, "run", "map")
        /\ is_cancel_requested
        /\ task[t].pending = {}
        /\ Len(task[t].done) = MaxFrames
        /\ get_task_status =
               Some(TaskPercentage("tasks.frame_analysis", MaxFrames, MaxFrames))

\* Task t is at the check that opens the quality analysis: the one of
\* frame_sigma_analysis or the one of run_sigma_analysis.
AtQualityCheck(t) ==
    task[t].pc = "check" /\ task[t].next \in {"qa_set", "an_reset"}

\* C29: when the check that opens the quality analysis reads a cancel
\* request, the stage returns Cancelled at once; the task never enters the
\* quality analysis afterwards, scores no record, and publishes no progress
\* (the only write to the status slot left to it empties the slot).
C29_CancelledBeforeScoring ==
    [][\A t \in DOMAIN task :
         /\ (AtQualityCheck(t) /\ is_cancel_requested /\ Steps(t))
            => /\ task'[t].pc = "cc_cancelled"
               /\ task'[t].cancelled
               /\ "QualityAnalysis" \notin task'[t].invoked
               /\ UNCHANGED <<TASK_STATUS_QUEUE, COUNTER>>
         /\ (/\ task[t].cancelled
             /\ "QualityAnalysis" \notin task[t].invoked
             /\ Steps(t))
            => /\ "QualityAnalysis" \notin task'[t].invoked
               /\ task'[t].records = <<>> /\ task'[t].done = <<>>
               /\ TASK_STATUS_QUEUE' \in {TASK_STATUS_QUEUE, None}
               /\ COUNTER' = COUNTER]_vars

C29_Witness ==
    \E t \in DOMAIN task :
        /\ At(t, "analysis", "cc_completed")
        /\ task[t].cancelled
        /\ task[t].invoked = {}
        /\ CANCEL_TASK = "Cancelled"

----------------------------------------------------------------------------
\* The claims about the end of a run.

Enters(t, stage) == stage \in task'[t].invoked \ task[t].invoked

C30_CorrectedReached ==
    \E t \in DOMAIN task :
        /\ At(t, "run", "save_set")
        /\ "LimbDarkeningCorrection" \in task[t].invoked
        /\ task[t].image =
               Some([Image(MaxFrames) EXCEPT !.corrected = TRUE,
                                             !.normalized = TRUE])

----------------------------------------------------------------------------
\* The claims about what the status slot shows of a task.

\* The label under which a task in a per-frame stage publishes its progress.
StageLabel(r) ==
    CASE r.pc = "map" -> IF r.kind = "run" THEN "tasks.frame_analysis"
                         ELSE "Frame Analysis"
      [] r.pc = "lim_run" -> "tasks.frame_limits"
      [] r.pc = "rot_run" -> "tasks.parallactic_angle"
      [] r.pc = "stk_run" -> "tasks.stacking"

InPerFrameStage(r) == r.pc \in {"map", "lim_run", "rot_run", "stk_run"}

\* C31: every snapshot a task publishes in a per-frame stage (at the entry of
\* the stage and for each completed unit) carries the label of that stage, the
\* number of its frames, and the number of units this stage of this task has
\* completed, 0 at the entry.
C31_SnapshotOfOwnStage ==
    [][\A t \in DOMAIN task :
         (Steps(t) /\ InPerFrameStage(task'[t])) =>
             TASK_STATUS_QUEUE' =
                 Some(TaskPercentage(StageLabel(task'[t]),
                                     Len(task'[t].records), task'[t].c))]_vars

\* C32: the quality analysis does not modify the frame records of the context
\* it reads: while the map is in flight no step of the task changes them, and
\* when the map returns they are still the unscored records of the input (the
\* scored copies are in the vector returned).
C32_ContextRecordsUntouched ==
    [][\A t \in DOMAIN task :
         (task[t].pc = "map" /\ Steps(t)) =>
             /\ task[t].records = FrameRecords(Len(task[t].records))
             /\ task'[t].pc = "map" => task'[t].records = task[t].records]_vars

C32_Witness ==
    \E t \in DOMAIN task :
        /\ At(t, "analysis", "map")
        /\ task[t].pending = {}
        /\ task[t].done = <<2, 1>>
        /\ task[t].records = FrameRecords(MaxFrames)
        /\ Collect(task[t].records, task[t].done)
               = [i \in 1..MaxFrames |-> ScoredCopy(FrameRecord(i))]

\* C33: a frame whose buffer cannot be loaded fails the whole quality
\* analysis: a step of a task in the parallel map is a worker that loaded and
\* reported its frame, or the return of a vector in which every frame of the
\* input is scored, or the end of the task; and a task that has ended runs no
\* stage afterwards.
C33_UnloadableFrameIsFatal ==
    [][\A t \in DOMAIN task :
         /\ (task[t].pc = "map" /\ Steps(t)) =>
              \/ /\ task'[t].pc = "map"
                 /\ \E i \in task[t].pending :
                      /\ task'[t].pending = task[t].pending \ {i}
                      /\ task'[t].done = Append(task[t].done, i)
              \/ /\ task'[t].pc \in {"check", "an_store"}
                 /\ Len(task'[t].records) = Len(task[t].records)
                 /\ \A i \in DOMAIN task'[t].records :
                      /\ task'[t].records[i].frame = i
                      /\ task'[t].records[i].sigma = FrameSigma(i)
                      /\ task'[t].records[i].offset = FrameOffset(i)
              \/ task'[t] = EndedTask
         /\ task[t].pc = "ended" => task'[t] = task[t]]_vars

\* The only task has ended in the middle of the map: the slot still shows one
\* of two frames analysed.
C33_Witness ==
    /\ spawned = 1
    /\ task[1] = EndedTask
    /\ get_task_status = Some(TaskPercentage("tasks.frame_analysis", 2, 1))

\* C34: when the task of an analysis ends, however it ends (completion,
\* cancellation, failure of the context construction or of the analysis),
\* the status slot is empty.
C34_AnalysisEndsWithStatusCleared ==
    [][\A t \in DOMAIN task :
         (task[t].kind = "analysis" /\ Ends(t)) => TASK_STATUS_QUEUE' = None]_vars

----------------------------------------------------------------------------
\* The claims about the result of a run.

\* An error message wrapped with the label of a stage.
Wrapped(stage, why) == stage \o ": " \o why

\* C35: the failure result stored after a stage function returned an error
\* carries that error's message wrapped with the label of the stage that
\* failed.
C35_FailureNamesStage ==
    [][\A t \in DOMAIN task :
         (StageFailed(t) /\ Stores(t)) =>
             /\ IMAGE_RESULTS' # None
             /\ Unwrap(IMAGE_RESULTS').error =
                    Some(Wrapped(Unwrap(task[t].failed), ExternalError))]_vars

\* C37: the result of a full run that is not cancelled is written before the
\* status slot is cleared: while such a run is in flight, the slot is emptied
\* only by the run's own set_task_completed, after it has stored its result.
C37_ResultBeforeStatusCleared ==
    [][\A t \in DOMAIN task :
         (/\ task[t].kind = "run" /\ InFlight(t)
          /\ ~task[t].cancelled /\ ~task'[t].cancelled
          /\ TASK_STATUS_QUEUE # None /\ TASK_STATUS_QUEUE' = None)
         => task[t].pc = "complete"]_vars

\* C38: in a full run during which the cancel is not requested and no other
\* task is in flight, the status slot holds a status from the start of the run
\* until its result is stored.
C38_StatusHeldUntilResultStored ==
    \A t \in DOMAIN task :
        (/\ task[t].kind = "run" /\ InFlight(t) /\ task[t].pc # "complete"
         /\ \A u \in DOMAIN task \ {t} : ~InFlight(u))
        => is_task_running

----------------------------------------------------------------------------
\* The claim about the threshold test.

\* C39: whenever run_thresh_test returns, with Ok or with Err, the status it
\* set on entry has been cleared.
C39_ThreshTestClearsStatus ==
    thresh.pc = "returned" => TASK_STATUS_QUEUE = None

----------------------------------------------------------------------------
\* The claim about the settings.

InBounds(s) ==
    /\ F64Le(F64(0), s.min_sigma) /\ F64Le(s.min_sigma, s.max_sigma)
    /\ F64Le(F64(-90), s.obs_latitude) /\ F64Le(s.obs_latitude, F64(90))
    /\ F64Le(F64(-180), s.obs_longitude) /\ F64Le(s.obs_longitude, F64(180))
    /\ F64Le(F64(1), s.top_percentage) /\ F64Le(s.top_percentage, F64(100))
    /\ F64Le(F64(1), s.obj_detection_threshold)

\* C40: after enforce_value_bounds, whatever the settings were, 0 <=
\* min_sigma <= max_sigma, -90 <= latitude <= 90, -180 <= longitude <= 180,
\* 1 <= top_percentage <= 100 and detection threshold >= 1, and applying it
\* again changes nothing.
C40_EnforcedBoundsHold ==
    view.fn = "enforce_value_bounds" =>
        /\ InBounds(state)
        /\ enforce_value_bounds(state) = state

HasNaN(s) == \E field \in DOMAIN s : s[field] = NaN

\* The same for settings that hold no NaN.
EnforcedBoundsHoldOfNumbers ==
    (view.fn = "enforce_value_bounds" /\ ~HasNaN(view.args[1])) =>
        /\ InBounds(state)
        /\ enforce_value_bounds(state) = state

====
